---- MODULE Spec2Model ----
(***************************************************************************)
(* Transactional domain-event publication in the ticket-sales samples.    *)
(*                                                                         *)
(*   Spec      the Spring sample: PartnerApplicationService,               *)
(*             TransactionalEventPublisher, DomainEventPublisher and the   *)
(*             AggregateRoot event buffer, driven through the phases of    *)
(*             one @Transactional call after another.                      *)
(*   SpecNest  the NestJS sample: ApplicationService.run / finish and      *)
(*             DomainEventManager.publish.                                 *)
(*   SpecOrder the Order aggregate (create / pay / cancel).                *)
(***************************************************************************)
EXTENDS Integers, Sequences, FiniteSets, TLC

\* ------------------------------------------------------------------ bounds
MaxObjects == 2
MaxEvents == 2

\* ------------------------------------------------------------- Spring state
VARIABLES
    domainEvents,   \* AggregateRoot.domainEvents of every Partner instance
    recorded,       \* every event addEvent ever appended to an instance (history)
    partnerOf,      \* Partner.id of an instance, 0 while the instance is unused
    db,             \* partner ids whose row is committed
    tx,             \* the transaction of the thread: the current or the last one
    syncIdx,        \* position of the synchronization callback loop
    rolledBack,     \* instances registered in a transaction that rolled back (history)
    published       \* calls of ApplicationEventPublisher.publishEvent, in order

springVars == <<domainEvents, recorded, partnerOf, db, tx, syncIdx, rolledBack, published>>

\* ------------------------------------------------------------- NestJS state
VARIABLES
    nPc,        \* where ApplicationService.run is
    nStep,      \* the statement of finish() being executed
    nBatch,     \* uow.getAggregateRoots(): the events (kinds) of each aggregate root
    nK,         \* position of the publishing loop among the events of the batch
    nAwait,     \* publish is awaiting the emitAsync promise of event nK
    nPending,   \* domain handlers invoked and not settled yet
    nError,     \* the error being thrown, "none" without one
    nRaised,    \* the error run() threw to its caller
    nReturn,    \* what run() returned to its caller
    nLog        \* what happened, in order

nestVars == <<nPc, nStep, nBatch, nK, nAwait, nPending, nError, nRaised, nReturn, nLog>>

\* -------------------------------------------------------------- Order state
VARIABLES
    oStatus,    \* Order.status of every Order instance, "NONE" before Order.create
    oCustomer,  \* Order.customerId
    oEvents,    \* AggregateRoot.domainEvents of every Order instance
    oRecorded,  \* every event addEvent ever appended to an Order instance (history)
    oLast       \* the last call on an order: what it found and how it ended

orderVars == <<oStatus, oCustomer, oEvents, oRecorded, oLast>>

\* ------------------------------------------------------------ factory calls
VARIABLES
    fPartner,   \* the last Partner.create call: its argument and the partner it returned
    fOrder      \* the last Order.create call: its arguments and the order it returned

factoryVars == <<fPartner, fOrder>>

\* ------------------------------------------- use cases on the unit of work
VARIABLES
    uCase,      \* the use case called last: the service method and its input
    uPc,        \* where that call is
    uLog,       \* what that call has done, in order
    uPersist,   \* the persist stack of the EntityManager
    uInTx,      \* inside em.transactional
    uTxRows,    \* rows flushed inside the open transaction
    uDb         \* committed rows

uowVars == <<uCase, uPc, uLog, uPersist, uInTx, uTxRows, uDb>>

\* ------------------------------------- ApplicationService.run calls in flight
VARIABLES
    emContext,  \* what the EntityManager calls resolve to: one unit of work for
                \* all callers ("global") or one per request ("request")
    emStack,    \* em.getUnitOfWork().getPersistStack(): the roots persisted and not flushed
    cPc,        \* where each run call is
    cRoots,     \* finish(): const aggregateRoots of each call
    cK,         \* position of the publishing loop of each call
    cLog        \* what the calls did, in order

runsVars == <<emContext, emStack, cPc, cRoots, cK, cLog>>

\* ------------------------------------------------- calls on an event buffer
VARIABLES
    bLast       \* the last call on the buffer of an aggregate: what it found and gave

bufferVars == <<bLast>>

\* ------------------------------------------------ the Event aggregate
VARIABLES
    eCreated,   \* whether Event.create has made the event
    eSections,  \* the sections of the event, in the order they were added
    eTotal,     \* the event's total_spots
    eEvents,    \* the events the aggregate has dispatched
    eLast       \* the last call on the event: its input and what it found

eventVars == <<eCreated, eSections, eTotal, eEvents, eLast>>

\* --------------------------------- OrderService.create calls in flight
VARIABLES
    kPc,        \* where each call stands
    kSpot,      \* the spot each call asks for
    kErr,       \* the message of the error each call has thrown
    kPersist,   \* what each call has added to repositories and not flushed
    kTx,        \* the rows each call has flushed inside its transaction
    kDb         \* the committed rows

bookVars == <<kPc, kSpot, kErr, kPersist, kTx, kDb>>

\* ------------------------------------------------------ value objects
VARIABLES
    vThis,      \* the value object equals is called on
    vObj,       \* the argument of equals
    vResult     \* what equals returned

voVars == <<vThis, vObj, vResult>>

\* the state of the parts added last
lateVars == <<eventVars, bookVars, voVars>>

\* the state of the parts that follow the three samples
restVars == <<factoryVars, uowVars, runsVars, bufferVars, lateVars>>

Objects == 1..MaxObjects
Names == {"Acme"}

Range(s) == {s[i] : i \in DOMAIN s}

\* PartnerCreated(partnerId, name)
PartnerCreated(o, id, name, n) ==
    [kind |-> "PartnerCreated", partnerId |-> id, name |-> name, obj |-> o, n |-> n]

\* PartnerNameChanged(partnerId, newName)
PartnerNameChanged(o, id, name, n) ==
    [kind |-> "PartnerNameChanged", partnerId |-> id, name |-> name, obj |-> o, n |-> n]

\* AggregateRoot.addEvent: domainEvents.add(event)
addEvent(buf, event) == Append(buf, event)

\* AggregateRoot.getDomainEvents: an unmodifiable view of the buffer
getDomainEvents(o) == domainEvents[o]

clearEvents_DropFirst(bufs, o) ==
    [bufs EXCEPT ![o] = IF @ = <<>> THEN <<>> ELSE SubSeq(@, 2, Len(@))]

\* AggregateRoot.clearEvents: domainEvents.clear()
clearEvents(bufs, o) == [bufs EXCEPT ![o] = <<>>]

\* AggregateRoot.hasEvents: !domainEvents.isEmpty()
hasEvents(o) == domainEvents[o] # <<>>

\* ---------------------------------------------------- transaction plumbing
NoTx == [status |-> "completed", outcome |-> "none", syncs |-> <<>>,
         managed |-> {}, saved |-> {}, failed |-> FALSE]

\* TransactionSynchronizationManager.isSynchronizationActive()
isSynchronizationActive == tx.status # "completed"

\* the phase a publishEvent call is made in
Phase == IF isSynchronizationActive THEN tx.status ELSE "none"

Fresh == {o \in Objects : partnerOf[o] = 0}
NextFresh == CHOOSE o \in Fresh : \A p \in Fresh : o <= p

\* -------------------------------------------------- DomainEventPublisher
\* the events the loop hands over: all of them, or those up to the one whose
\* publishEvent call throws (failAt = 0: no call throws)
Handed(buf, failAt) == IF failAt = 0 THEN buf ELSE SubSeq(buf, 1, failAt)

LogEntries(evs) ==
    [i \in 1..Len(evs) |-> [ev |-> evs[i], phase |-> Phase]]

Reverse(s) == [i \in 1..Len(s) |-> s[Len(s) + 1 - i]]

publishEvents_NoClear(bufs, o, failAt) ==
    /\ published' = published \o LogEntries(Handed(bufs[o], failAt))
    /\ domainEvents' = bufs

publishEvents_Reversed(bufs, o, failAt) ==
    /\ published' = published \o LogEntries(Reverse(Handed(bufs[o], failAt)))
    /\ domainEvents' = IF failAt = 0 THEN clearEvents(bufs, o) ELSE bufs

\* DomainEventPublisher.publishEvents(aggregateRoot), bufs being the buffers
\* at the call: publishEvent for every buffered event in order, then
\* clearEvents; an exception of publishEvent leaves the loop, and the method,
\* before clearEvents
publishEvents(bufs, o, failAt) ==
    /\ published' = published \o LogEntries(Handed(bufs[o], failAt))
    /\ domainEvents' = IF failAt = 0 THEN clearEvents(bufs, o) ELSE bufs

\* ------------------------------------------------- PartnerEventListener
\* the @TransactionalEventListener methods of PartnerEventListener
Listeners ==
    <<[name |-> "handlePartnerCreated", on |-> "PartnerCreated", phase |-> "AFTER_COMMIT"],
      [name |-> "handlePartnerNameChanged", on |-> "PartnerNameChanged", phase |-> "AFTER_COMMIT"],
      [name |-> "beforeCommitExample", on |-> "PartnerCreated", phase |-> "BEFORE_COMMIT"]>>

\* when a @TransactionalEventListener of phase p runs for an event handed to
\* publishEvent in phase ph of the transaction: with no transaction it is
\* skipped (no fallbackExecution); during the business method it runs at its
\* own phase; from afterCommit on, the before-commit phase is over and an
\* AFTER_COMMIT listener runs in the completion round of the committed
\* transaction
ListenerRunsIn(p, ph) ==
    CASE ph = "none" -> "never"
      [] ph = "active" -> IF p = "BEFORE_COMMIT" THEN "beforeCommit" ELSE "afterCommit"
      [] OTHER -> IF p = "AFTER_COMMIT" THEN "afterCompletion" ELSE "never"

\* ------------------------------------------- TransactionalEventPublisher
publishAfterCommit_Eager(o, bufs, t, failAt) ==
    /\ publishEvents(bufs, o, failAt)
    /\ tx' = t

publishAfterCommit_AlwaysRegister(o, bufs, t, failAt) ==
    /\ domainEvents' = bufs
    /\ published' = published
    /\ tx' = [t EXCEPT !.syncs = Append(@, o)]

\* TransactionalEventPublisher.publishAfterCommit(aggregateRoot), bufs and t
\* being the buffers and the transaction as the caller left them: without an
\* active synchronization publishEvents at once, else registerSynchronization
\* of the afterCommit / afterCompletion callback
publishAfterCommit(o, bufs, t, failAt) ==
    IF ~isSynchronizationActive
       THEN /\ publishEvents(bufs, o, failAt)
            /\ tx' = t
       ELSE /\ domainEvents' = bufs
            /\ published' = published
            /\ tx' = [t EXCEPT !.syncs = Append(@, o)]

\* ----------------------------------------------------------------- actions
\* entering an @Transactional method with no transaction on the thread
Begin ==
    /\ ~isSynchronizationActive
    /\ tx' = [status |-> "active", outcome |-> "none", syncs |-> <<>>,
              managed |-> {}, saved |-> {}, failed |-> FALSE]
    /\ syncIdx' = 1
    /\ UNCHANGED <<domainEvents, recorded, partnerOf, db, rolledBack, published, nestVars, orderVars, restVars>>

\* PartnerApplicationService.create: Partner.create, save, publishAfterCommit
Create(name) ==
    /\ tx.status = "active"
    /\ Fresh # {}
    /\ LET o == NextFresh
           e == PartnerCreated(o, o, name, 1)
       IN /\ partnerOf' = [partnerOf EXCEPT ![o] = o]
          /\ recorded' = [recorded EXCEPT ![o] = addEvent(@, e)]
          /\ publishAfterCommit(o,
                 [domainEvents EXCEPT ![o] = addEvent(@, e)],
                 [tx EXCEPT !.managed = @ \cup {o}, !.saved = @ \cup {o}], 0)
    /\ UNCHANGED <<db, syncIdx, rolledBack, nestVars, orderVars, restVars>>

\* the instance findById gives: the one the persistence context of this
\* transaction already manages, else a newly loaded one
Managed(id) == {o \in tx.managed : partnerOf[o] = id}

\* PartnerApplicationService.updateName when the partner exists:
\* findById, changeName, save, publishAfterCommit
UpdateName(id, newName) ==
    /\ tx.status = "active"
    /\ id \in db \cup tx.saved
    /\ Managed(id) # {} \/ Fresh # {}
    /\ LET o == IF Managed(id) # {} THEN CHOOSE m \in Managed(id) : TRUE ELSE NextFresh
           e == PartnerNameChanged(o, id, newName, Len(recorded[o]) + 1)
       IN /\ Len(recorded[o]) < MaxEvents
          /\ partnerOf' = [partnerOf EXCEPT ![o] = id]
          /\ recorded' = [recorded EXCEPT ![o] = addEvent(@, e)]
          /\ publishAfterCommit(o,
                 [domainEvents EXCEPT ![o] = addEvent(@, e)],
                 [tx EXCEPT !.managed = @ \cup {o}], 0)
    /\ UNCHANGED <<db, syncIdx, rolledBack, nestVars, orderVars, restVars>>

\* where the transaction goes once a phase is over
Completed(t) == [t EXCEPT !.status = "completed"]
ToAfterCompletion(t) ==
    IF t.syncs = <<>> THEN Completed(t) ELSE [t EXCEPT !.status = "afterCompletion"]

\* PartnerApplicationService.updateName when findById is empty: the
\* RuntimeException leaves the @Transactional method and rolls back
UpdateNameNotFound(id) ==
    /\ tx.status = "active"
    /\ id \notin db \cup tx.saved
    /\ tx' = ToAfterCompletion([tx EXCEPT !.outcome = "rolledBack"])
    /\ rolledBack' = rolledBack \cup Range(tx.syncs)
    /\ syncIdx' = 1
    /\ UNCHANGED <<domainEvents, recorded, partnerOf, db, published, nestVars, orderVars, restVars>>

\* leaving the @Transactional method normally: the commit succeeds, or it
\* fails and the transaction is rolled back
Commit(ok) ==
    /\ tx.status = "active"
    /\ IF ok
          THEN /\ db' = db \cup tx.saved
               /\ tx' = IF tx.syncs = <<>>
                           THEN Completed([tx EXCEPT !.outcome = "committed"])
                           ELSE [tx EXCEPT !.outcome = "committed", !.status = "afterCommit"]
               /\ rolledBack' = rolledBack
          ELSE /\ db' = db
               /\ tx' = ToAfterCompletion([tx EXCEPT !.outcome = "rolledBack"])
               /\ rolledBack' = rolledBack \cup Range(tx.syncs)
    /\ syncIdx' = 1
    /\ UNCHANGED <<domainEvents, recorded, partnerOf, published, nestVars, orderVars, restVars>>

AfterCommit_RoundGoesOn(failAt) ==
    /\ tx.status = "afterCommit"
    /\ LET o == tx.syncs[syncIdx]
       IN /\ failAt \in 0..Len(getDomainEvents(o))
          /\ publishEvents(domainEvents, o, failAt)
    /\ IF syncIdx < Len(tx.syncs)
          THEN /\ syncIdx' = syncIdx + 1
               /\ tx' = [tx EXCEPT !.failed = @ \/ (failAt # 0)]
          ELSE /\ syncIdx' = 1
               /\ tx' = [tx EXCEPT !.status = "afterCompletion", !.failed = @ \/ (failAt # 0)]
    /\ UNCHANGED <<recorded, partnerOf, db, rolledBack, nestVars, orderVars, restVars>>

\* TransactionSynchronization.afterCommit of the next registered callback;
\* an exception ends the afterCommit round
AfterCommit(failAt) ==
    /\ tx.status = "afterCommit"
    /\ LET o == tx.syncs[syncIdx]
       IN /\ failAt \in 0..Len(getDomainEvents(o))
          /\ publishEvents(domainEvents, o, failAt)
    /\ IF failAt = 0 /\ syncIdx < Len(tx.syncs)
          THEN /\ syncIdx' = syncIdx + 1
               /\ tx' = tx
          ELSE /\ syncIdx' = 1
               /\ tx' = [tx EXCEPT !.status = "afterCompletion", !.failed = (failAt # 0)]
    /\ UNCHANGED <<recorded, partnerOf, db, rolledBack, nestVars, orderVars, restVars>>

afterCompletion_NoClear(o, status) == domainEvents' = domainEvents

afterCompletion_AlwaysClear(o, status) == domainEvents' = clearEvents(domainEvents, o)

\* TransactionSynchronization.afterCompletion(status):
\* clearEvents when status == STATUS_ROLLED_BACK
afterCompletion(o, status) ==
    domainEvents' = IF status = "rolledBack" THEN clearEvents(domainEvents, o)
                                              ELSE domainEvents

\* afterCompletion of the next registered callback; after the last one the
\* synchronizations are cleared and the transaction is over
AfterCompletion ==
    /\ tx.status = "afterCompletion"
    /\ afterCompletion(tx.syncs[syncIdx], tx.outcome)
    /\ IF syncIdx < Len(tx.syncs)
          THEN /\ syncIdx' = syncIdx + 1
               /\ tx' = tx
          ELSE /\ syncIdx' = 1
               /\ tx' = Completed(tx)
    /\ UNCHANGED <<recorded, partnerOf, db, rolledBack, published, nestVars, orderVars, restVars>>

\* publishAfterCommit called with no synchronization active, on a partner
\* just made by Partner.create: "publishing events immediately"
PublishImmediately(name, failAt) ==
    /\ ~isSynchronizationActive
    /\ Fresh # {}
    /\ failAt \in 0..1
    /\ LET o == NextFresh
           e == PartnerCreated(o, o, name, 1)
       IN /\ partnerOf' = [partnerOf EXCEPT ![o] = o]
          /\ recorded' = [recorded EXCEPT ![o] = addEvent(@, e)]
          /\ publishAfterCommit(o, [domainEvents EXCEPT ![o] = addEvent(@, e)], tx, failAt)
    /\ UNCHANGED <<db, syncIdx, rolledBack, nestVars, orderVars, restVars>>

SpringInit ==
    /\ domainEvents = [o \in Objects |-> <<>>]
    /\ recorded = [o \in Objects |-> <<>>]
    /\ partnerOf = [o \in Objects |-> 0]
    /\ db = {}
    /\ tx = NoTx
    /\ syncIdx = 1
    /\ rolledBack = {}
    /\ published = <<>>

SpringNext ==
    \/ Begin
    \/ \E name \in Names : Create(name)
    \/ \E id \in Objects, name \in Names : UpdateName(id, name)
    \/ \E id \in Objects : UpdateNameNotFound(id)
    \/ \E ok \in BOOLEAN : Commit(ok)
    \/ \E failAt \in 0..MaxEvents : AfterCommit(failAt)
    \/ AfterCompletion
    \/ \E name \in Names, failAt \in 0..1 : PublishImmediately(name, failAt)

\* ============================================================ NestJS sample
MaxRoots == 2
MaxRootEvents == 2

\* the events an aggregate root holds when the callback is over: a Partner made
\* by Partner.create holds one PartnerCreated, an Event one EventAddedSection
\* for every addSection call
RootEvents ==
    {<<"PartnerCreated">>} \cup {[i \in 1..n |-> "EventAddedSection"] : n \in 0..MaxRootEvents}

\* the batches a callback can leave in the unit of work
Batches == UNION {[1..n -> RootEvents] : n \in 0..MaxRoots}

\* the events of a batch in the order of the loops
\*   for (root of aggregateRoots) for (event of root.events)
RECURSIVE Positions(_, _, _)
Positions(batch, i, j) ==
    IF i > Len(batch) THEN <<>>
    ELSE IF j > Len(batch[i]) THEN Positions(batch, i + 1, 1)
    ELSE <<[root |-> i, idx |-> j, kind |-> batch[i][j]]>> \o Positions(batch, i, j + 1)

Pos(batch) == Positions(batch, 1, 1)

\* the handlers registered with DomainEventManager.register at module init:
\* MyHandlerHandler for the kinds it listens to, the stored-event handler for '*'
DomainHandlers ==
    <<[name |-> "MyHandlerHandler", on |-> "PartnerCreated"],
      [name |-> "StoredEvents", on |-> "*"]>>

\* the handler registered with registerForIntegrationEvent
IntegrationHandlers ==
    <<[name |-> "PartnerCreatedIntegration", on |-> "PartnerCreated"]>>

Matches_NoWildcard(h, kind) == h.on = kind

\* EventEmitter2 with wildcard: true
Matches(h, kind) == h.on = "*" \/ h.on = kind

Matching(handlers, kind) ==
    SelectSeq(handlers, LAMBDA h : Matches(h, kind))

Entry(op, h, k, ok) == [op |-> op, h |-> h, k |-> k, ok |-> ok]

FinishSteps_IntegrationBeforeCommit == <<"publish", "integration", "commit">>

FinishSteps_CommitFirst == <<"commit", "publish", "integration">>

\* the statements of ApplicationService.finish, in order: publish the domain
\* events of every root, uow.commit(), publishForIntegrationEvent of every root
FinishSteps == <<"publish", "commit", "integration">>

\* control after statement s - 1 of finish has completed: a loop over no
\* event is passed over, the end of finish returns from run
RECURSIVE Enter(_, _)
Enter(batch, s) ==
    IF s > Len(FinishSteps) THEN [pc |-> "returned", step |-> s]
    ELSE IF FinishSteps[s] # "commit" /\ Pos(batch) = <<>> THEN Enter(batch, s + 1)
    ELSE [pc |-> FinishSteps[s], step |-> s]

\* control after event nK of a loop has been dealt with
Advance ==
    IF nK < Len(Pos(nBatch))
       THEN /\ nK' = nK + 1
            /\ UNCHANGED <<nPc, nStep, nReturn>>
       ELSE /\ nK' = 1
            /\ nPc' = Enter(nBatch, nStep + 1).pc
            /\ nStep' = Enter(nBatch, nStep + 1).step
            /\ nReturn' = IF Enter(nBatch, nStep + 1).pc = "returned"
                             THEN nBatch ELSE nReturn

\* run: await this.start()
StartRun ==
    /\ nPc = "idle"
    /\ nPc' = "callback"
    /\ nLog' = Append(nLog, Entry("start", "-", 0, TRUE))
    /\ UNCHANGED <<nStep, nBatch, nK, nAwait, nPending, nError, nRaised, nReturn, springVars, orderVars, restVars>>

\* run: const result = await callback() returns; finish() is entered and
\* reads uow.getAggregateRoots()
CallbackReturns(batch) ==
    /\ nPc = "callback"
    /\ nBatch' = batch
    /\ nPc' = Enter(batch, 1).pc
    /\ nStep' = Enter(batch, 1).step
    /\ nReturn' = IF Enter(batch, 1).pc = "returned" THEN batch ELSE nReturn
    /\ nK' = 1
    /\ nLog' = nLog \o <<Entry("result", "-", 0, TRUE), Entry("finish", "-", 0, TRUE)>>
    /\ UNCHANGED <<nAwait, nPending, nError, nRaised, springVars, orderVars, restVars>>

\* run: await callback() throws
CallbackRaises ==
    /\ nPc = "callback"
    /\ nPc' = "catch"
    /\ nError' = "callback"
    /\ nLog' = Append(nLog, Entry("raise", "callback", 0, FALSE))
    /\ UNCHANGED <<nStep, nBatch, nK, nAwait, nPending, nRaised, nReturn, springVars, orderVars, restVars>>

\* DomainEventManager.publish: emitAsync(eventClassName, event) calls every
\* matching handler and gives the promise of all of them
Publish ==
    /\ nPc = "publish"
    /\ ~nAwait
    /\ LET hs == Matching(DomainHandlers, Pos(nBatch)[nK].kind)
       IN /\ nLog' = nLog \o <<Entry("emit", Pos(nBatch)[nK].kind, nK, TRUE)>>
                       \o [i \in 1..Len(hs) |-> Entry("invoke", hs[i].name, nK, TRUE)]
          /\ nPending' = nPending \cup {[h |-> hs[i].name, k |-> nK] : i \in 1..Len(hs)}
    /\ nAwait' = TRUE
    /\ UNCHANGED <<nPc, nStep, nBatch, nK, nError, nRaised, nReturn, springVars, orderVars, restVars>>

\* a domain handler resolves or rejects. The awaited promise of emitAsync
\* rejects with the first rejection, and publish, finish and the try block of
\* run are left; it resolves when every handler of the event has resolved. A
\* handler that settles after its promise was left changes nothing.
Settle(p, ok) ==
    /\ p \in nPending
    /\ nPending' = nPending \ {p}
    /\ IF nPc = "publish" /\ nAwait /\ p.k = nK
          THEN IF ~ok
                  THEN /\ nPc' = "catch"
                       /\ nError' = "handler"
                       /\ nAwait' = FALSE
                       /\ nLog' = nLog \o <<Entry("settle", p.h, p.k, ok),
                                            Entry("raise", "handler", p.k, FALSE)>>
                       /\ UNCHANGED <<nStep, nK, nReturn>>
                  ELSE /\ nLog' = Append(nLog, Entry("settle", p.h, p.k, ok))
                       /\ UNCHANGED nError
                       /\ IF \E q \in nPending' : q.k = nK
                             THEN UNCHANGED <<nPc, nStep, nK, nAwait, nReturn>>
                             ELSE nAwait' = FALSE /\ Advance
          ELSE /\ nLog' = Append(nLog, Entry("settle", p.h, p.k, ok))
               /\ UNCHANGED <<nPc, nStep, nK, nAwait, nError, nReturn>>
    /\ UNCHANGED <<nBatch, nRaised, springVars, orderVars, restVars>>

\* finish: await this.uow.commit()
CommitUow(ok) ==
    /\ nPc = "commit"
    /\ IF ok
          THEN /\ nLog' = Append(nLog, Entry("commit", "-", 0, TRUE))
               /\ nPc' = Enter(nBatch, nStep + 1).pc
               /\ nStep' = Enter(nBatch, nStep + 1).step
               /\ nReturn' = IF Enter(nBatch, nStep + 1).pc = "returned"
                                THEN nBatch ELSE nReturn
               /\ UNCHANGED nError
          ELSE /\ nLog' = Append(nLog, Entry("raise", "commit", 0, FALSE))
               /\ nPc' = "catch"
               /\ nError' = "commit"
               /\ UNCHANGED <<nStep, nReturn>>
    /\ nK' = 1
    /\ UNCHANGED <<nBatch, nAwait, nPending, nRaised, springVars, orderVars, restVars>>

\* DomainEventManager.publishForIntegrationEvent, one event of a root: the
\* integration handlers of the kind hand the event to the transport; a
\* transport failure stays inside the dispatch
PublishForIntegrationEvent(ok) ==
    /\ nPc = "integration"
    /\ LET hs == Matching(IntegrationHandlers, Pos(nBatch)[nK].kind)
       IN /\ hs = <<>> => ok
          /\ nLog' = nLog \o [i \in 1..Len(hs) |-> Entry("integration", hs[i].name, nK, ok)]
    /\ Advance
    /\ UNCHANGED <<nBatch, nAwait, nPending, nError, nRaised, springVars, orderVars, restVars>>

Catch_NoFail ==
    /\ nPc = "catch"
    /\ nPc' = "raised"
    /\ nRaised' = nError
    /\ UNCHANGED <<nStep, nBatch, nK, nAwait, nPending, nError, nReturn, nLog, springVars, orderVars, restVars>>

\* run: catch (e) { await this.fail(); throw e; }
Catch ==
    /\ nPc = "catch"
    /\ nLog' = Append(nLog, Entry("fail", "-", 0, TRUE))
    /\ nPc' = "raised"
    /\ nRaised' = nError
    /\ UNCHANGED <<nStep, nBatch, nK, nAwait, nPending, nError, nReturn, springVars, orderVars, restVars>>

NestInit ==
    /\ nPc = "idle"
    /\ nStep = 0
    /\ nBatch = <<>>
    /\ nK = 1
    /\ nAwait = FALSE
    /\ nPending = {}
    /\ nError = "none"
    /\ nRaised = "none"
    /\ nReturn = "none"
    /\ nLog = <<>>

NestNext ==
    \/ StartRun
    \/ \E batch \in Batches : CallbackReturns(batch)
    \/ CallbackRaises
    \/ Publish
    \/ \E p \in nPending, ok \in BOOLEAN : Settle(p, ok)
    \/ \E ok \in BOOLEAN : CommitUow(ok)
    \/ \E ok \in BOOLEAN : PublishForIntegrationEvent(ok)
    \/ Catch

\* ===================================================================== Order
MaxOrders == 2
MaxOrderEvents == 3

Orders == 1..MaxOrders
Customers == {"c1", "c2"}
Spots == {"s1"}
Amounts == {100}

\* enum OrderStatus { PENDING, PAID, CANCELLED }; "NONE": no such order yet
OrderStatus == {"PENDING", "PAID", "CANCELLED"}

\* new OrderCreated(id, customerId, eventSpotId, amount, OrderStatus.PENDING)
OrderCreated(id, customer, spot, amount, status) ==
    [kind |-> "OrderCreated", orderId |-> id, customerId |-> customer,
     eventSpotId |-> spot, amount |-> amount, status |-> status]

\* new OrderPaid(orderId, status)
OrderPaid(id, status) ==
    [kind |-> "OrderPaid", orderId |-> id, customerId |-> "-",
     eventSpotId |-> "-", amount |-> 0, status |-> status]

\* new OrderCancelled(orderId, status)
OrderCancelled(id, status) ==
    [kind |-> "OrderCancelled", orderId |-> id, customerId |-> "-",
     eventSpotId |-> "-", amount |-> 0, status |-> status]

Call(op, o, threw) ==
    [op |-> op, order |-> o, threw |-> threw, status |-> oStatus[o], events |-> oEvents[o]]

FreshOrders == {o \in Orders : oStatus[o] = "NONE"}

\* Order.create(customerId, eventSpotId, amount): a PENDING order holding
\* one OrderCreated event
OrderCreate(customer, spot, amount) ==
    /\ FreshOrders # {}
    /\ LET o == CHOOSE f \in FreshOrders : \A g \in FreshOrders : f <= g
       IN /\ oStatus' = [oStatus EXCEPT ![o] = "PENDING"]
          /\ oCustomer' = [oCustomer EXCEPT ![o] = customer]
          /\ oEvents' = [oEvents EXCEPT
                ![o] = addEvent(@, OrderCreated(o, customer, spot, amount, "PENDING"))]
          /\ oRecorded' = [oRecorded EXCEPT
                ![o] = addEvent(@, OrderCreated(o, customer, spot, amount, "PENDING"))]
          /\ oLast' = Call("create", o, FALSE)
    /\ UNCHANGED <<springVars, nestVars, restVars>>

pay_NoGuard(o) ==
    /\ oStatus' = [oStatus EXCEPT ![o] = "PAID"]
    /\ oEvents' = [oEvents EXCEPT ![o] = addEvent(@, OrderPaid(o, "PAID"))]
    /\ oRecorded' = [oRecorded EXCEPT ![o] = addEvent(@, OrderPaid(o, "PAID"))]
    /\ oLast' = Call("pay", o, oStatus[o] # "PENDING")

pay_UnlessPaid(o) ==
    IF oStatus[o] = "PAID"
       THEN /\ oLast' = Call("pay", o, TRUE)
            /\ UNCHANGED <<oStatus, oEvents, oRecorded>>
       ELSE /\ oStatus' = [oStatus EXCEPT ![o] = "PAID"]
            /\ oEvents' = [oEvents EXCEPT ![o] = addEvent(@, OrderPaid(o, "PAID"))]
            /\ oRecorded' = [oRecorded EXCEPT ![o] = addEvent(@, OrderPaid(o, "PAID"))]
            /\ oLast' = Call("pay", o, FALSE)

pay_NoEvent(o) ==
    IF oStatus[o] # "PENDING"
       THEN /\ oLast' = Call("pay", o, TRUE)
            /\ UNCHANGED <<oStatus, oEvents, oRecorded>>
       ELSE /\ oStatus' = [oStatus EXCEPT ![o] = "PAID"]
            /\ oLast' = Call("pay", o, FALSE)
            /\ UNCHANGED <<oEvents, oRecorded>>

\* Order.pay(): IllegalStateException unless the status is PENDING, else the
\* status becomes PAID and OrderPaid(id, status) is recorded
pay(o) ==
    IF oStatus[o] # "PENDING"
       THEN /\ oLast' = Call("pay", o, TRUE)
            /\ UNCHANGED <<oStatus, oEvents, oRecorded>>
       ELSE /\ oStatus' = [oStatus EXCEPT ![o] = "PAID"]
            /\ oEvents' = [oEvents EXCEPT ![o] = addEvent(@, OrderPaid(o, "PAID"))]
            /\ oRecorded' = [oRecorded EXCEPT ![o] = addEvent(@, OrderPaid(o, "PAID"))]
            /\ oLast' = Call("pay", o, FALSE)

cancel_NoGuard(o) ==
    /\ oStatus' = [oStatus EXCEPT ![o] = "CANCELLED"]
    /\ oEvents' = [oEvents EXCEPT ![o] = addEvent(@, OrderCancelled(o, "CANCELLED"))]
    /\ oRecorded' = [oRecorded EXCEPT ![o] = addEvent(@, OrderCancelled(o, "CANCELLED"))]
    /\ oLast' = Call("cancel", o, oStatus[o] = "PAID")

\* Order.cancel(): IllegalStateException when the status is PAID, else the
\* status becomes CANCELLED and OrderCancelled(id, status) is recorded
cancel(o) ==
    IF oStatus[o] = "PAID"
       THEN /\ oLast' = Call("cancel", o, TRUE)
            /\ UNCHANGED <<oStatus, oEvents, oRecorded>>
       ELSE /\ oStatus' = [oStatus EXCEPT ![o] = "CANCELLED"]
            /\ oEvents' = [oEvents EXCEPT ![o] = addEvent(@, OrderCancelled(o, "CANCELLED"))]
            /\ oRecorded' = [oRecorded EXCEPT ![o] = addEvent(@, OrderCancelled(o, "CANCELLED"))]
            /\ oLast' = Call("cancel", o, FALSE)

\* a call of pay() on an existing order
Pay(o) ==
    /\ oStatus[o] # "NONE"
    /\ Len(oRecorded[o]) < MaxOrderEvents
    /\ pay(o)
    /\ UNCHANGED <<oCustomer, springVars, nestVars, restVars>>

\* a call of cancel() on an existing order
Cancel(o) ==
    /\ oStatus[o] # "NONE"
    /\ Len(oRecorded[o]) < MaxOrderEvents
    /\ cancel(o)
    /\ UNCHANGED <<oCustomer, springVars, nestVars, restVars>>

\* the buffer of an order is emptied (clearEvents after publication)
OrderClearEvents(o) ==
    /\ oStatus[o] # "NONE"
    /\ oEvents[o] # <<>>
    /\ oEvents' = clearEvents(oEvents, o)
    /\ oLast' = Call("clearEvents", o, FALSE)
    /\ UNCHANGED <<oStatus, oCustomer, oRecorded, springVars, nestVars, restVars>>

OrderInit ==
    /\ oStatus = [o \in Orders |-> "NONE"]
    /\ oCustomer = [o \in Orders |-> "-"]
    /\ oEvents = [o \in Orders |-> <<>>]
    /\ oRecorded = [o \in Orders |-> <<>>]
    /\ oLast = [op |-> "none", order |-> 1, threw |-> FALSE, status |-> "NONE", events |-> <<>>]

OrderNext ==
    \/ \E c \in Customers, s \in Spots, a \in Amounts : OrderCreate(c, s, a)
    \/ \E o \in Orders : Pay(o)
    \/ \E o \in Orders : Cancel(o)
    \/ \E o \in Orders : OrderClearEvents(o)

\* ================================================================= factories
\* what UUID.randomUUID().toString() can give
UUIDs == {"u1", "u2"}
PartnerNames == {"Acme", "Globex"}
EventSpots == {"s1", "s2"}
OrderAmounts == {50, 100, 250}

Partner_create_OtherId(id, name) ==
    [id |-> id, name |-> name,
     domainEvents |->
        addEvent(<<>>, PartnerCreated(id, CHOOSE u \in UUIDs : u # id, name, 1))]

\* Partner.create(name), id being the UUID drawn: new Partner(id, name), then
\* addEvent(new PartnerCreated(id, name))
Partner_create(id, name) ==
    [id |-> id, name |-> name,
     domainEvents |-> addEvent(<<>>, PartnerCreated(id, id, name, 1))]

\* Order.create(customerId, eventSpotId, amount), id being the UUID drawn:
\* new Order(id, ...) with status PENDING, then addEvent(new OrderCreated(...))
Order_create(id, customer, spot, amount) ==
    [id |-> id, customerId |-> customer, eventSpotId |-> spot, amount |-> amount,
     status |-> "PENDING",
     domainEvents |->
        addEvent(<<>>, OrderCreated(id, customer, spot, amount, "PENDING"))]

\* a caller calls Partner.create(name)
CallPartnerCreate(id, name) ==
    /\ fPartner' = [called |-> TRUE, name |-> name, result |-> Partner_create(id, name)]
    /\ UNCHANGED <<fOrder, springVars, nestVars, orderVars, uowVars, runsVars, bufferVars, lateVars>>

\* a caller calls Order.create(customerId, eventSpotId, amount)
CallOrderCreate(id, customer, spot, amount) ==
    /\ fOrder' = [called |-> TRUE, customerId |-> customer, eventSpotId |-> spot,
                  amount |-> amount,
                  result |-> Order_create(id, customer, spot, amount)]
    /\ UNCHANGED <<fPartner, springVars, nestVars, orderVars, uowVars, runsVars, bufferVars, lateVars>>

FactoryInit ==
    /\ fPartner = [called |-> FALSE]
    /\ fOrder = [called |-> FALSE]

FactoryNext ==
    \/ \E id \in UUIDs, name \in PartnerNames : CallPartnerCreate(id, name)
    \/ \E id \in UUIDs, c \in Customers, s \in EventSpots, a \in OrderAmounts :
          CallOrderCreate(id, c, s, a)

\* ================================================= use cases and unit of work
CustomerIds == Customers \cup {"c0"}      \* "c0": no such customer
PartnerIds == {"p1", "p0"}                \* "p0": no such partner
EventIds == {"ev1", "ev2"}

SpotReservation(spot, customer) ==
    [type |-> "SpotReservation", id |-> spot, customer |-> customer, status |-> "-"]
OrderRow(spot, customer, status) ==
    [type |-> "Order", id |-> spot, customer |-> customer, status |-> status]
EventRow(id) ==
    [type |-> "Event", id |-> id, customer |-> "-", status |-> "-"]

UEntry(op, what, ok) == [op |-> op, what |-> what, ok |-> ok]

\* rows a findById can see: committed ones and those flushed in the open transaction
Visible == uDb \cup uTxRows

CommitResult_Once(flushOk) ==
    flushOk /\ ~\E i \in DOMAIN uLog : uLog[i].op = "commit" /\ uLog[i].ok

\* UnitOfWorkMikroOrm.commit(): return this.em.flush() - it succeeds exactly
\* when the flush does
CommitResult(flushOk) == flushOk

\* await this.uow.commit(): the persist stack is written, inside the open
\* transaction if there is one
commit(flushOk) ==
    /\ uLog' = Append(uLog, UEntry("commit", IF flushOk THEN "flushed" ELSE "flush failed",
                                   CommitResult(flushOk)))
    /\ IF CommitResult(flushOk)
          THEN /\ uPersist' = {}
               /\ uTxRows' = IF uInTx THEN uTxRows \cup uPersist ELSE uTxRows
               /\ uDb' = IF uInTx THEN uDb ELSE uDb \cup uPersist
          ELSE UNCHANGED <<uPersist, uTxRows, uDb>>

UseCaseOver == uPc \in {"idle", "returned", "threw"}

\* a use case throws before touching the repositories
Rejected(case, message) ==
    /\ uCase' = case
    /\ uPc' = "threw"
    /\ uLog' = <<UEntry("throw", message, FALSE)>>
    /\ UNCHANGED <<uPersist, uInTx, uTxRows, uDb>>

\* OrderService.create up to the first uow.commit(): the four checks, then
\* runTransaction, SpotReservation.create and spotReservationRepo.add
OrderServiceCreate(customer, event, spot, allowed) ==
    /\ UseCaseOver
    /\ LET case == [service |-> "OrderService.create", customer |-> customer,
                    id |-> event, spot |-> spot]
       IN IF customer \notin Customers THEN Rejected(case, "Customer not found")
          ELSE IF EventRow(event) \notin Visible THEN Rejected(case, "Event not found")
          ELSE IF ~allowed THEN Rejected(case, "Spot not available")
          ELSE IF \E r \in Visible : r.type = "SpotReservation" /\ r.id = spot
                  THEN Rejected(case, "Spot already reserved")
          ELSE /\ uCase' = case
               /\ uPc' = "commitReservation"
               /\ uInTx' = TRUE
               /\ uPersist' = uPersist \cup {SpotReservation(spot, customer)}
               /\ uLog' = <<UEntry("runTransaction", "-", TRUE),
                            UEntry("add", "SpotReservation", TRUE)>>
               /\ UNCHANGED <<uTxRows, uDb>>
    /\ UNCHANGED <<springVars, nestVars, orderVars, factoryVars, runsVars, bufferVars, lateVars>>

\* OrderService.create: await this.uow.commit() after the reservation; a
\* failure here is outside the try block and leaves the callback
OsCommitReservation(flushOk) ==
    /\ uPc = "commitReservation"
    /\ commit(flushOk)
    /\ uPc' = IF CommitResult(flushOk) THEN "payment" ELSE "rollback"
    /\ UNCHANGED <<uCase, uInTx, springVars, nestVars, orderVars, factoryVars, runsVars, bufferVars, lateVars>>

\* OrderService.create: paymentGateway.payment; when it succeeds Order.create,
\* order.pay(), orderRepo.add, event.markSpotAsReserved and eventRepo.add
OsPayment(ok) ==
    /\ uPc = "payment"
    /\ IF ok
          THEN /\ uPersist' = uPersist \cup {OrderRow(uCase.spot, uCase.customer, "PAID"),
                                              EventRow(uCase.id)}
               /\ uLog' = uLog \o <<UEntry("payment", "-", TRUE),
                                     UEntry("add", "Order", TRUE),
                                     UEntry("add", "Event", TRUE)>>
               /\ uPc' = "commitOrder"
          ELSE /\ uLog' = Append(uLog, UEntry("payment", "-", FALSE))
               /\ uPc' = "catch"
               /\ UNCHANGED uPersist
    /\ UNCHANGED <<uCase, uInTx, uTxRows, uDb, springVars, nestVars, orderVars, factoryVars, runsVars, bufferVars, lateVars>>

\* OrderService.create: await this.uow.commit() after the order; a failure
\* here is inside the try block
OsCommitOrder(flushOk) ==
    /\ uPc = "commitOrder"
    /\ commit(flushOk)
    /\ uPc' = IF CommitResult(flushOk) THEN "txCommit" ELSE "catch"
    /\ UNCHANGED <<uCase, uInTx, springVars, nestVars, orderVars, factoryVars, runsVars, bufferVars, lateVars>>

\* OrderService.create, catch (e): Order.create, order.cancel(), orderRepo.add
OsCatch ==
    /\ uPc = "catch"
    /\ uPersist' = uPersist \cup {OrderRow(uCase.spot, uCase.customer, "CANCELLED")}
    /\ uLog' = Append(uLog, UEntry("add", "Order", TRUE))
    /\ uPc' = "commitCancelled"
    /\ UNCHANGED <<uCase, uInTx, uTxRows, uDb, springVars, nestVars, orderVars, factoryVars, runsVars, bufferVars, lateVars>>

\* OrderService.create, catch (e): await this.uow.commit(), then throw
OsCommitCancelled(flushOk) ==
    /\ uPc = "commitCancelled"
    /\ commit(flushOk)
    /\ uPc' = "rollback"
    /\ UNCHANGED <<uCase, uInTx, springVars, nestVars, orderVars, factoryVars, runsVars, bufferVars, lateVars>>

\* em.transactional when the callback has returned: flush and commit
TransactionalCommit ==
    /\ uPc = "txCommit"
    /\ uDb' = uDb \cup uTxRows \cup uPersist
    /\ uTxRows' = {}
    /\ uPersist' = {}
    /\ uInTx' = FALSE
    /\ uLog' = Append(uLog, UEntry("return", "-", TRUE))
    /\ uPc' = "returned"
    /\ UNCHANGED <<uCase, springVars, nestVars, orderVars, factoryVars, runsVars, bufferVars, lateVars>>

\* em.transactional when the callback has thrown: rollback and rethrow
TransactionalRollback ==
    /\ uPc = "rollback"
    /\ uTxRows' = {}
    /\ uPersist' = {}
    /\ uInTx' = FALSE
    /\ uLog' = Append(uLog, UEntry("throw", "-", FALSE))
    /\ uPc' = "threw"
    /\ UNCHANGED <<uCase, uDb, springVars, nestVars, orderVars, factoryVars, runsVars, bufferVars, lateVars>>

\* EventService.create up to uow.commit(): partnerRepo.findById,
\* partner.initEvent, eventRepo.add
EventServiceCreate(partner, id) ==
    /\ UseCaseOver
    /\ LET case == [service |-> "EventService.create", customer |-> partner,
                    id |-> id, spot |-> "-"]
       IN IF partner # "p1" THEN Rejected(case, "Partner not found")
          ELSE /\ uCase' = case
               /\ uPc' = "commitEvent"
               /\ uPersist' = uPersist \cup {EventRow(id)}
               /\ uLog' = <<UEntry("add", "Event", TRUE)>>
               /\ UNCHANGED <<uInTx, uTxRows, uDb>>
    /\ UNCHANGED <<springVars, nestVars, orderVars, factoryVars, runsVars, bufferVars, lateVars>>

EventServiceUpdate_AddFirst(id) ==
    /\ UseCaseOver
    /\ LET case == [service |-> "EventService.update", customer |-> "-",
                    id |-> id, spot |-> "-"]
       IN /\ uCase' = case
          /\ uPersist' = uPersist \cup {EventRow(id)}
          /\ UNCHANGED <<uInTx, uTxRows, uDb>>
          /\ IF EventRow(id) \notin Visible
                THEN /\ uPc' = "threw"
                     /\ uLog' = <<UEntry("add", "Event", TRUE),
                                  UEntry("throw", "Event not found", FALSE)>>
                ELSE /\ uPc' = "commitEvent"
                     /\ uLog' = <<UEntry("add", "Event", TRUE)>>
    /\ UNCHANGED <<springVars, nestVars, orderVars, factoryVars, runsVars, bufferVars, lateVars>>

\* EventService.update up to uow.commit(): eventRepo.findById, the changes,
\* eventRepo.add
EventServiceUpdate(id) ==
    /\ UseCaseOver
    /\ LET case == [service |-> "EventService.update", customer |-> "-",
                    id |-> id, spot |-> "-"]
       IN IF EventRow(id) \notin Visible THEN Rejected(case, "Event not found")
          ELSE /\ uCase' = case
               /\ uPc' = "commitEvent"
               /\ uPersist' = uPersist \cup {EventRow(id)}
               /\ uLog' = <<UEntry("add", "Event", TRUE)>>
               /\ UNCHANGED <<uInTx, uTxRows, uDb>>
    /\ UNCHANGED <<springVars, nestVars, orderVars, factoryVars, runsVars, bufferVars, lateVars>>

\* EventService.create / update: await this.uow.commit(); return event
EsCommit(flushOk) ==
    /\ uPc = "commitEvent"
    /\ commit(flushOk)
    /\ uPc' = IF CommitResult(flushOk) THEN "returned" ELSE "threw"
    /\ UNCHANGED <<uCase, uInTx, springVars, nestVars, orderVars, factoryVars, runsVars, bufferVars, lateVars>>

UowInit ==
    /\ uCase = [service |-> "none", customer |-> "-", id |-> "-", spot |-> "-"]
    /\ uPc = "idle"
    /\ uLog = <<>>
    /\ uPersist = {}
    /\ uInTx = FALSE
    /\ uTxRows = {}
    /\ uDb = {}

UowNext ==
    \/ \E c \in CustomerIds, e \in EventIds, sp \in EventSpots, allowed \in BOOLEAN :
          OrderServiceCreate(c, e, sp, allowed)
    \/ \E ok \in BOOLEAN : OsCommitReservation(ok)
    \/ \E ok \in BOOLEAN : OsPayment(ok)
    \/ \E ok \in BOOLEAN : OsCommitOrder(ok)
    \/ OsCatch
    \/ \E ok \in BOOLEAN : OsCommitCancelled(ok)
    \/ TransactionalCommit
    \/ TransactionalRollback
    \/ \E p \in PartnerIds, id \in EventIds : EventServiceCreate(p, id)
    \/ \E id \in EventIds : EventServiceUpdate(id)
    \/ \E ok \in BOOLEAN : EsCommit(ok)

\* ===================================== ApplicationService.run calls in flight
\* two requests, each calling ApplicationService.run once
Runs == {"r1", "r2"}

CEntry(r, op, owner, root, idx) ==
    [run |-> r, op |-> op, owner |-> owner, root |-> root, idx |-> idx]

emShared == emContext = "global"

\* the roots of the unit of work the EntityManager resolves to for call r
StackOf(r) ==
    IF emShared THEN emStack
                ELSE SelectSeq(emStack, LAMBDA a : a.owner = r)

\* uow.getAggregateRoots() as called by r
getAggregateRoots(r) == StackOf(r)

\* the events of the roots finish() of r iterates over
CPos(r) == Pos([i \in DOMAIN cRoots[r] |-> cRoots[r][i].events])

\* the application starts: MikroOrmModule provides the EntityManager
AppStart(context) ==
    /\ emContext = "unset"
    /\ emContext' = context
    /\ UNCHANGED <<emStack, cPc, cRoots, cK, cLog>>
    /\ UNCHANGED <<springVars, nestVars, orderVars, factoryVars, uowVars, bufferVars, lateVars>>

\* run of r: await this.start()
RunStart(r) ==
    /\ emContext # "unset"
    /\ cPc[r] = "idle"
    /\ cPc' = [cPc EXCEPT ![r] = "callback"]
    /\ UNCHANGED <<emContext, emStack, cRoots, cK, cLog>>
    /\ UNCHANGED <<springVars, nestVars, orderVars, factoryVars, uowVars, bufferVars, lateVars>>

\* the callback of r: it makes an aggregate root that records events and
\* awaits repo.add(root), which persists it
RunCallbackAdd(r, events) ==
    /\ cPc[r] = "callback"
    /\ emStack' = Append(emStack, [owner |-> r, events |-> events])
    /\ cPc' = [cPc EXCEPT ![r] = "result"]
    /\ UNCHANGED <<emContext, cRoots, cK, cLog>>
    /\ UNCHANGED <<springVars, nestVars, orderVars, factoryVars, uowVars, bufferVars, lateVars>>

\* the callback of r throws: catch (e) { await this.fail(); throw e; }
RunCallbackRaises(r) ==
    /\ cPc[r] = "callback"
    /\ cPc' = [cPc EXCEPT ![r] = "raised"]
    /\ cLog' = Append(cLog, CEntry(r, "fail", r, 0, 0))
    /\ UNCHANGED <<emContext, emStack, cRoots, cK>>
    /\ UNCHANGED <<springVars, nestVars, orderVars, factoryVars, uowVars, bufferVars, lateVars>>

\* run of r: the callback has returned; finish() reads uow.getAggregateRoots()
RunFinish(r) ==
    /\ cPc[r] = "result"
    /\ cRoots' = [cRoots EXCEPT ![r] = getAggregateRoots(r)]
    /\ cK' = [cK EXCEPT ![r] = 1]
    /\ cPc' = [cPc EXCEPT ![r] =
                  IF Pos([i \in DOMAIN getAggregateRoots(r) |-> getAggregateRoots(r)[i].events])
                        = <<>>
                     THEN "commit" ELSE "publish"]
    /\ UNCHANGED <<emContext, emStack, cLog>>
    /\ UNCHANGED <<springVars, nestVars, orderVars, factoryVars, uowVars, bufferVars, lateVars>>

\* finish() of r: the next event is emitted and its handlers are awaited;
\* a rejection leaves finish() for catch / fail()
RunPublish(r, ok) ==
    /\ cPc[r] = "publish"
    /\ LET e == CPos(r)[cK[r]]
       IN cLog' = cLog \o <<CEntry(r, "publish", cRoots[r][e.root].owner, e.root, e.idx)>>
                      \o (IF ok THEN <<>> ELSE <<CEntry(r, "fail", r, 0, 0)>>)
    /\ IF ~ok THEN /\ cPc' = [cPc EXCEPT ![r] = "raised"]
                    /\ UNCHANGED cK
       ELSE IF cK[r] < Len(CPos(r))
               THEN /\ cK' = [cK EXCEPT ![r] = @ + 1]
                    /\ UNCHANGED cPc
               ELSE /\ cK' = [cK EXCEPT ![r] = 1]
                    /\ cPc' = [cPc EXCEPT ![r] = "commit"]
    /\ UNCHANGED <<emContext, emStack, cRoots>>
    /\ UNCHANGED <<springVars, nestVars, orderVars, factoryVars, uowVars, bufferVars, lateVars>>

\* finish() of r: await this.uow.commit(), em.flush() writing every root of
\* the unit of work it resolves to
RunCommit(r, ok) ==
    /\ cPc[r] = "commit"
    /\ IF ok
          THEN /\ cLog' = cLog \o [i \in DOMAIN StackOf(r) |->
                                      CEntry(r, "flush", StackOf(r)[i].owner, i, 0)]
               /\ emStack' = IF emShared THEN <<>>
                                          ELSE SelectSeq(emStack, LAMBDA a : a.owner # r)
               /\ cPc' = [cPc EXCEPT ![r] = "integration"]
          ELSE /\ cLog' = Append(cLog, CEntry(r, "fail", r, 0, 0))
               /\ cPc' = [cPc EXCEPT ![r] = "raised"]
               /\ UNCHANGED emStack
    /\ UNCHANGED <<emContext, cRoots, cK>>
    /\ UNCHANGED <<springVars, nestVars, orderVars, factoryVars, uowVars, bufferVars, lateVars>>

\* finish() of r: the publishForIntegrationEvent loop, then run returns
RunIntegration(r) ==
    /\ cPc[r] = "integration"
    /\ cPc' = [cPc EXCEPT ![r] = "returned"]
    /\ UNCHANGED <<emContext, emStack, cRoots, cK, cLog>>
    /\ UNCHANGED <<springVars, nestVars, orderVars, factoryVars, uowVars, bufferVars, lateVars>>

RunsInit ==
    /\ emContext = "unset"
    /\ emStack = <<>>
    /\ cPc = [r \in Runs |-> "idle"]
    /\ cRoots = [r \in Runs |-> <<>>]
    /\ cK = [r \in Runs |-> 1]
    /\ cLog = <<>>

RunsNext ==
    \/ \E context \in {"global", "request"} : AppStart(context)
    \/ \E r \in Runs : RunStart(r)
    \/ \E r \in Runs, events \in RootEvents : RunCallbackAdd(r, events)
    \/ \E r \in Runs : RunCallbackRaises(r)
    \/ \E r \in Runs : RunFinish(r)
    \/ \E r \in Runs, ok \in BOOLEAN : RunPublish(r, ok)
    \/ \E r \in Runs, ok \in BOOLEAN : RunCommit(r, ok)
    \/ \E r \in Runs : RunIntegration(r)

\* ===================================================== the event buffer
\* what a caller can try on the list getDomainEvents() gave it
ListMutations == {"add", "remove", "clear", "reverse"}

Mutated(list, m, e) ==
    CASE m = "add" -> Append(list, e)
      [] m = "remove" -> IF list = <<>> THEN list ELSE SubSeq(list, 2, Len(list))
      [] m = "clear" -> <<>>
      [] m = "reverse" -> Reverse(list)

unmodifiableList_Live(list, m, e) == [threw |-> FALSE, list |-> Mutated(list, m, e)]

\* Collections.unmodifiableList(domainEvents): every mutating method of the
\* list returned throws UnsupportedOperationException and the backing list
\* stays as it is
unmodifiableList(list, m, e) == [threw |-> TRUE, list |-> list]

BCall(op, o, threw, result) ==
    [op |-> op, obj |-> o, threw |-> threw, before |-> domainEvents[o], result |-> result]

\* a business method of aggregate o records an event: addEvent(event)
BufAddEvent(o, name) ==
    /\ Len(recorded[o]) < MaxEvents
    /\ LET e == PartnerNameChanged(o, o, name, Len(recorded[o]) + 1)
       IN /\ domainEvents' = [domainEvents EXCEPT ![o] = addEvent(@, e)]
          /\ recorded' = [recorded EXCEPT ![o] = addEvent(@, e)]
    /\ bLast' = BCall("addEvent", o, FALSE, <<>>)
    /\ UNCHANGED <<partnerOf, db, tx, syncIdx, rolledBack, published>>
    /\ UNCHANGED <<nestVars, orderVars, factoryVars, uowVars, runsVars, lateVars>>

\* a caller calls getDomainEvents()
BufGetDomainEvents(o) ==
    /\ bLast' = BCall("getDomainEvents", o, FALSE, getDomainEvents(o))
    /\ UNCHANGED <<springVars, nestVars, orderVars, factoryVars, uowVars, runsVars, lateVars>>

\* a caller tries to change the list getDomainEvents() gave it
BufMutateView(o, m, name) ==
    /\ LET e == PartnerNameChanged(o, o, name, 0)
           r == unmodifiableList(getDomainEvents(o), m, e)
       IN /\ domainEvents' = [domainEvents EXCEPT ![o] = r.list]
          /\ bLast' = BCall(m, o, r.threw, <<>>)
    /\ UNCHANGED <<recorded, partnerOf, db, tx, syncIdx, rolledBack, published>>
    /\ UNCHANGED <<nestVars, orderVars, factoryVars, uowVars, runsVars, lateVars>>

\* a caller calls clearEvents()
BufClearEvents(o) ==
    /\ domainEvents' = clearEvents(domainEvents, o)
    /\ bLast' = BCall("clearEvents", o, FALSE, <<>>)
    /\ UNCHANGED <<recorded, partnerOf, db, tx, syncIdx, rolledBack, published>>
    /\ UNCHANGED <<nestVars, orderVars, factoryVars, uowVars, runsVars, lateVars>>

\* a caller calls hasEvents()
BufHasEvents(o) ==
    /\ bLast' = BCall("hasEvents", o, FALSE, hasEvents(o))
    /\ UNCHANGED <<springVars, nestVars, orderVars, factoryVars, uowVars, runsVars, lateVars>>

BufferInit ==
    bLast = [op |-> "none", obj |-> 1, threw |-> FALSE, before |-> <<>>, result |-> <<>>]

BufferNext ==
    \/ \E o \in Objects, name \in Names : BufAddEvent(o, name)
    \/ \E o \in Objects : BufGetDomainEvents(o)
    \/ \E o \in Objects, m \in ListMutations, name \in Names : BufMutateView(o, m, name)
    \/ \E o \in Objects : BufClearEvents(o)
    \/ \E o \in Objects : BufHasEvents(o)

\* ================================================== the Event aggregate
MaxSections == 3

SectionNames == {"Pista", "VIP"}
SpotCounts == {0, 2, 100}
SectionInputs == [name : SectionNames, total_spots : SpotCounts]

\* what the actions of the other parts leave alone
earlyVars == <<springVars, nestVars, orderVars, factoryVars, uowVars, runsVars, bufferVars>>

\* EventSection.create(input): a section of input.total_spots spots, one
\* EventSpot for each
EventSection_create(input) ==
    [name |-> input.name, total_spots |-> input.total_spots,
     spots |-> 1..input.total_spots]

addSection_Twice(sections, input) ==
    Append(Append(sections, EventSection_create(input)), EventSection_create(input))

\* Event.addSection: const section = EventSection.create(input);
\* this.sections.push(section)
addSection(sections, input) == Append(sections, EventSection_create(input))

\* the event's total_spots after a section has been added
Event_total_spots(total, section) == total + section.total_spots

ECall(op, input) ==
    [op |-> op, input |-> input, sections |-> eSections, total |-> eTotal]

\* Event.create: an event with no section
EventCreate ==
    /\ ~eCreated
    /\ eCreated' = TRUE
    /\ eSections' = <<>>
    /\ eTotal' = 0
    /\ eEvents' = <<"EventCreated">>
    /\ eLast' = ECall("create", [name |-> "-", total_spots |-> 0])
    /\ UNCHANGED <<earlyVars, bookVars, voVars>>

\* event.addSection(input), which ends with
\* dispatchEvent(new EventAddedSection(this.event_id, section))
EventAddSection(input) ==
    /\ eCreated
    /\ Len(eSections) < MaxSections
    /\ eSections' = addSection(eSections, input)
    /\ eTotal' = Event_total_spots(eTotal, EventSection_create(input))
    /\ eEvents' = Append(eEvents, "EventAddedSection")
    /\ eLast' = ECall("addSection", input)
    /\ UNCHANGED <<eCreated, earlyVars, bookVars, voVars>>

EventInit ==
    /\ eCreated = FALSE
    /\ eSections = <<>>
    /\ eTotal = 0
    /\ eEvents = <<>>
    /\ eLast = [op |-> "none", input |-> [name |-> "-", total_spots |-> 0],
                sections |-> <<>>, total |-> 0]

EventNext ==
    \/ EventCreate
    \/ \E input \in SectionInputs : EventAddSection(input)

\* ================================= OrderService.create calls in flight
\* the requests being served, each by a customer of its own
Calls == {"k1", "k2"}
BookSpots == {"s1", "s2"}

ReservationRow(c, spot) == [type |-> "SpotReservation", spot |-> spot, call |-> c, status |-> "-"]
BookedOrderRow(c, spot, status) == [type |-> "Order", spot |-> spot, call |-> c, status |-> status]
ReservedMark(c, spot) == [type |-> "SpotReserved", spot |-> spot, call |-> c, status |-> "-"]

\* the rows the finders of call c see: the committed ones and those of its
\* own transaction; whether they also see what other calls have flushed in
\* transactions still open (dirty) depends on the connection and isolation
\* the EntityManager runs with
Seen(c, dirty) ==
    kDb \cup kTx[c] \cup (IF dirty THEN UNION {kTx[d] : d \in Calls} ELSE {})

\* event.allowReserveSpot: the spot has not been marked as reserved
allowReserveSpot(c, spot, dirty) ==
    ~\E r \in Seen(c, dirty) : r.type = "SpotReserved" /\ r.spot = spot

\* spotReservationRepo.findById(spotId)
findReservation(c, spot, dirty) ==
    {r \in Seen(c, dirty) : r.type = "SpotReservation" /\ r.spot = spot}

KThrow(c, message) ==
    /\ kPc' = [kPc EXCEPT ![c] = "threw"]
    /\ kErr' = [kErr EXCEPT ![c] = message]

\* create up to runTransaction: the finders and the checks C and D
KCheck(c, spot, dirty) ==
    /\ kPc[c] = "idle"
    /\ kSpot' = [kSpot EXCEPT ![c] = spot]
    /\ IF ~allowReserveSpot(c, spot, dirty)
          THEN KThrow(c, "Spot not available")
          ELSE IF findReservation(c, spot, dirty) # {}
                  THEN KThrow(c, "Spot already reserved")
                  ELSE kPc' = [kPc EXCEPT ![c] = "reserve"] /\ UNCHANGED kErr
    /\ UNCHANGED <<kPersist, kTx, kDb, earlyVars, eventVars, voVars>>

\* the callback of runTransaction up to try: SpotReservation.create,
\* spotReservationRepo.add, uow.commit(); a commit that throws leaves the
\* callback and the transaction is rolled back
KReserve(c, flushOk) ==
    /\ kPc[c] = "reserve"
    /\ IF flushOk
          THEN /\ kTx' = [kTx EXCEPT ![c] = @ \cup {ReservationRow(c, kSpot[c])}]
               /\ kPc' = [kPc EXCEPT ![c] = "payment"]
               /\ UNCHANGED kErr
          ELSE /\ kTx' = [kTx EXCEPT ![c] = {}]
               /\ KThrow(c, "flush failed")
    /\ UNCHANGED <<kSpot, kPersist, kDb, earlyVars, eventVars, voVars>>

\* try: paymentGateway.payment, then Order.create, order.pay(),
\* orderRepo.add, event.markSpotAsReserved, eventRepo.add
KPayment(c, ok) ==
    /\ kPc[c] = "payment"
    /\ IF ok
          THEN /\ kPersist' = [kPersist EXCEPT ![c] =
                       {BookedOrderRow(c, kSpot[c], "PAID"), ReservedMark(c, kSpot[c])}]
               /\ kPc' = [kPc EXCEPT ![c] = "commitOrder"]
          ELSE /\ kPc' = [kPc EXCEPT ![c] = "catch"]
               /\ UNCHANGED kPersist
    /\ UNCHANGED <<kSpot, kErr, kTx, kDb, earlyVars, eventVars, voVars>>

\* try: await this.uow.commit(); return order
KCommitOrder(c, flushOk) ==
    /\ kPc[c] = "commitOrder"
    /\ IF flushOk
          THEN /\ kTx' = [kTx EXCEPT ![c] = @ \cup kPersist[c]]
               /\ kPersist' = [kPersist EXCEPT ![c] = {}]
               /\ kPc' = [kPc EXCEPT ![c] = "txCommit"]
          ELSE /\ kPc' = [kPc EXCEPT ![c] = "catch"]
               /\ UNCHANGED <<kTx, kPersist>>
    /\ UNCHANGED <<kSpot, kErr, kDb, earlyVars, eventVars, voVars>>

\* catch: Order.create, order.cancel(), orderRepo.add, uow.commit(), throw
KCatch(c, flushOk) ==
    /\ kPc[c] = "catch"
    /\ IF flushOk
          THEN /\ kTx' = [kTx EXCEPT ![c] =
                       @ \cup kPersist[c] \cup {BookedOrderRow(c, kSpot[c], "CANCELLED")}]
               /\ kPersist' = [kPersist EXCEPT ![c] = {}]
          ELSE UNCHANGED <<kTx, kPersist>>
    /\ kPc' = [kPc EXCEPT ![c] = "rollback"]
    /\ UNCHANGED <<kSpot, kErr, kDb, earlyVars, eventVars, voVars>>

\* em.transactional: the callback threw, the transaction is rolled back and
\* the error leaves create
KRollback(c) ==
    /\ kPc[c] = "rollback"
    /\ kTx' = [kTx EXCEPT ![c] = {}]
    /\ kPersist' = [kPersist EXCEPT ![c] = {}]
    /\ KThrow(c, "Aconteceu um erro ao reservar o seu lugar")
    /\ UNCHANGED <<kSpot, kDb, earlyVars, eventVars, voVars>>

\* em.transactional: the callback returned, the transaction is committed
KTxCommit(c) ==
    /\ kPc[c] = "txCommit"
    /\ kDb' = kDb \cup kTx[c]
    /\ kTx' = [kTx EXCEPT ![c] = {}]
    /\ kPc' = [kPc EXCEPT ![c] = "returned"]
    /\ UNCHANGED <<kSpot, kErr, kPersist, earlyVars, eventVars, voVars>>

BookInit ==
    /\ kPc = [c \in Calls |-> "idle"]
    /\ kSpot = [c \in Calls |-> "none"]
    /\ kErr = [c \in Calls |-> "none"]
    /\ kPersist = [c \in Calls |-> {}]
    /\ kTx = [c \in Calls |-> {}]
    /\ kDb = {}

BookNext ==
    \/ \E c \in Calls, spot \in BookSpots, dirty \in BOOLEAN : KCheck(c, spot, dirty)
    \/ \E c \in Calls, flushOk \in BOOLEAN : KReserve(c, flushOk)
    \/ \E c \in Calls, ok \in BOOLEAN : KPayment(c, ok)
    \/ \E c \in Calls, flushOk \in BOOLEAN : KCommitOrder(c, flushOk)
    \/ \E c \in Calls, flushOk \in BOOLEAN : KCatch(c, flushOk)
    \/ \E c \in Calls : KRollback(c)
    \/ \E c \in Calls : KTxCommit(c)

\* ========================================================= value objects
\* the values a value object is given: undefined, null, strings, and objects,
\* an object being a reference (ref) to properties (content)
Undefined == [type |-> "undefined", ref |-> 0, content |-> "-"]
Null == [type |-> "null", ref |-> 0, content |-> "-"]
Strings == {[type |-> "string", ref |-> 0, content |-> c] : c \in {"abc", "abcd"}}
Objects_ == {[type |-> "object", ref |-> r, content |-> c] :
                r \in {1, 2}, c \in {"{cidade: SP}", "{cidade: RJ}"}}
Values == {Undefined, Null} \cup Strings \cup Objects_

\* the value object classes: Email (super(email) only) and Name, whose
\* constructor reads this.value.length and so throws on undefined and null
VoClasses == {"Email", "Name"}

Constructs(class, value) == class = "Name" => value.type \notin {"undefined", "null"}

ValueObjects ==
    {vo \in [class : VoClasses, value : Values] : Constructs(vo.class, vo.value)}

\* what equals can be passed: a value object, null or undefined
NoObject == {[class |-> "-", value |-> Null], [class |-> "-", value |-> Undefined]}
Arguments == ValueObjects \cup NoObject

\* lodash isEqual: deep comparison, by content and not by reference
isEqual(x, y) == x.type = y.type /\ x.content = y.content

\* ValueObject.equals(obj)
equals(this, obj) ==
    IF obj \in NoObject THEN FALSE
    ELSE IF obj.value = Undefined THEN FALSE
    ELSE IF obj.class # this.class THEN FALSE
    ELSE isEqual(this.value, obj.value)

\* two value objects are made (or one, compared with itself, with null or
\* with undefined)
VoConstruct(a, b) ==
    /\ vThis \in NoObject
    /\ vThis' = a
    /\ vObj' = b
    /\ UNCHANGED <<vResult, earlyVars, eventVars, bookVars>>

\* this.equals(obj)
VoEquals ==
    /\ vThis \in ValueObjects
    /\ vResult = "none"
    /\ vResult' = IF equals(vThis, vObj) THEN "true" ELSE "false"
    /\ UNCHANGED <<vThis, vObj, earlyVars, eventVars, bookVars>>

VoInit ==
    /\ vThis = [class |-> "-", value |-> Undefined]
    /\ vObj = [class |-> "-", value |-> Undefined]
    /\ vResult = "none"

VoNext ==
    \/ \E a \in ValueObjects, b \in Arguments : VoConstruct(a, b)
    \/ VoEquals

vars == <<springVars, nestVars, orderVars, restVars>>

Init == SpringInit /\ NestInit /\ OrderInit /\ FactoryInit /\ UowInit /\ RunsInit
        /\ BufferInit /\ EventInit /\ BookInit /\ VoInit

SpecFactory == Init /\ [][FactoryNext]_vars

SpecUow == Init /\ [][UowNext]_vars

SpecRuns == Init /\ [][RunsNext]_vars

SpecBuffer == Init /\ [][BufferNext]_vars

SpecEvent == Init /\ [][EventNext]_vars

SpecBook == Init /\ [][BookNext]_vars

SpecValue == Init /\ [][VoNext]_vars

Next == SpringNext
Spec == Init /\ [][Next]_vars

SpecNest == Init /\ [][NestNext]_vars

SpecOrder == Init /\ [][OrderNext]_vars

\* ================================================= claims on the Spring sample
EntriesOf(o) == {i \in DOMAIN published : published[i].ev.obj = o}

Registered == Range(tx.syncs)

\* C1: no buffered event of an aggregate passed to publishAfterCommit inside a
\* transaction is handed to the event publisher before that transaction's
\* commit has succeeded: publishEvent is never called in the active phase, nor
\* in a transaction that rolls back, and while the transaction of an aggregate
\* is not committed the publisher has seen none of the aggregate's events.
C1_NoPublishBeforeCommit ==
    /\ \A i \in DOMAIN published : published[i].phase \in {"afterCommit", "none"}
    /\ tx.outcome # "committed" => \A o \in Registered : EntriesOf(o) = {}

\* an aggregate registered inside a transaction has had an event published
\* after the commit
C1_Witness ==
    \E o \in Registered : \E i \in EntriesOf(o) : published[i].phase = "afterCommit"

\* C3: the events of an aggregate registered in a transaction that rolls back
\* are never handed to the publisher, during the rollback or later, and the
\* aggregate's buffer is empty once that transaction has completed.
C3_RollbackDiscards ==
    \A o \in rolledBack :
        /\ EntriesOf(o) = {}
        /\ (o \in Registered /\ tx.status # "completed") \/ domainEvents[o] = <<>>

\* an aggregate that recorded two events sits in a completed rolled-back transaction
C3_Witness ==
    /\ tx.status = "completed"
    /\ tx.outcome = "rolledBack"
    /\ \E o \in Registered : o \in rolledBack /\ Len(recorded[o]) = 2

TimesPublished(e) == Cardinality({i \in DOMAIN published : published[i].ev = e})

CommittedCleanly ==
    tx.status = "completed" /\ tx.outcome = "committed" /\ ~tx.failed

\* C4: once a transaction has committed and its callbacks have run without a
\* publishEvent failure, every event recorded by a registered aggregate has
\* been published exactly once and the aggregate's buffer is empty.
C4_PublishedOnceAndCleared ==
    CommittedCleanly =>
        \A o \in Registered :
            /\ domainEvents[o] = <<>>
            /\ \A k \in DOMAIN recorded[o] : TimesPublished(recorded[o][k]) = 1

\* a cleanly committed transaction in which an aggregate with two events was
\* registered twice
C4_Witness ==
    /\ CommittedCleanly
    /\ \E i, j \in DOMAIN tx.syncs :
          i # j /\ tx.syncs[i] = tx.syncs[j] /\ Len(recorded[tx.syncs[i]]) = 2

\* the events the callbacks of the transaction publish, in order: those of the
\* registered aggregates in registration order, each aggregate once
RECURSIVE ExpectedOrder(_, _)
ExpectedOrder(syncs, i) ==
    IF i > Len(syncs) THEN <<>>
    ELSE (IF \E j \in 1..(i - 1) : syncs[j] = syncs[i] THEN <<>> ELSE recorded[syncs[i]])
         \o ExpectedOrder(syncs, i + 1)

RECURSIVE PublishedOf(_, _)
PublishedOf(objs, i) ==
    IF i > Len(published) THEN <<>>
    ELSE (IF published[i].ev.obj \in objs THEN <<published[i].ev>> ELSE <<>>)
         \o PublishedOf(objs, i + 1)

IsPrefix(s, t) == Len(s) <= Len(t) /\ SubSeq(t, 1, Len(s)) = s

\* C5: the events a committed transaction publishes follow the registration
\* order of the aggregates and, within an aggregate, the recording order: at
\* every moment they are a prefix of that sequence, and all of it once the
\* callbacks have run without failure.
C5_DispatchOrder ==
    tx.outcome = "committed" =>
        /\ IsPrefix(PublishedOf(Registered, 1), ExpectedOrder(tx.syncs, 1))
        /\ CommittedCleanly => PublishedOf(Registered, 1) = ExpectedOrder(tx.syncs, 1)

\* two aggregates registered in one cleanly committed transaction, the first
\* holding two events
C5_Witness ==
    /\ CommittedCleanly
    /\ Len(tx.syncs) >= 2
    /\ tx.syncs[1] # tx.syncs[Len(tx.syncs)]
    /\ Len(recorded[tx.syncs[1]]) = 2
    /\ Len(PublishedOf(Registered, 1)) = 3

AppendOnly(o) ==
    /\ Len(domainEvents[o]) <= Len(domainEvents'[o])
    /\ SubSeq(domainEvents'[o], 1, Len(domainEvents[o])) = domainEvents[o]

\* every event the buffer of o held has been handed to the publisher in phase ph
DispatchedIn(o, ph) ==
    \A i \in DOMAIN domainEvents[o] :
        \E k \in DOMAIN published' :
            published'[k].ev = domainEvents[o][i] /\ published'[k].phase = ph

\* the events of o that were recorded and are in its buffer no more
Left(o) == Range(recorded[o]) \ Range(domainEvents[o])

DispatchedBy(e, phases) ==
    \E k \in DOMAIN published : published[k].ev = e /\ published[k].phase \in phases

BufferStep(o) ==
    \/ AppendOnly(o)
    \/ /\ domainEvents'[o] = <<>>
       /\ \/ /\ tx.status = "afterCommit" /\ tx.outcome = "committed"
             /\ DispatchedIn(o, "afterCommit")
          \/ tx.status = "afterCompletion" /\ tx.outcome = "rolledBack"

ListenerRuns(name, e, at) ==
    \E i \in DOMAIN Listeners :
        /\ Listeners[i].name = name
        /\ Listeners[i].on = e.kind
        /\ \E k \in DOMAIN published :
              /\ published[k].ev = e
              /\ ListenerRunsIn(Listeners[i].phase, published[k].phase) = at

\* C23: for every partner created in a transaction that has committed,
\* beforeCommitExample ran for its PartnerCreated before the commit.
C23_BeforeCommitListenerFirst ==
    \A o \in Objects :
        (tx.outcome = "committed" /\ o \in Registered) =>
            \A i \in DOMAIN recorded[o] :
                recorded[o][i].kind = "PartnerCreated" =>
                    ListenerRuns("beforeCommitExample", recorded[o][i], "beforeCommit")

\* C25: no event an aggregate recorded has been handed to the event
\* publisher more than once.
C25_PublishedAtMostOnce ==
    \A o \in Objects :
        \A k \in DOMAIN recorded[o] : TimesPublished(recorded[o][k]) <= 1

\* an aggregate registered twice in a transaction that committed, whose
\* afterCommit round was ended by a failing publishEvent call after it had
\* handed over an event the buffer still holds
C25_Witness ==
    /\ tx.status = "completed" /\ tx.outcome = "committed" /\ tx.failed
    /\ \E o \in Objects :
          /\ Cardinality({i \in DOMAIN tx.syncs : tx.syncs[i] = o}) = 2
          /\ domainEvents[o] # <<>>
          /\ TimesPublished(domainEvents[o][1]) = 1

\* ================================================= claims on the NestJS sample
LogIdx(op) == {i \in DOMAIN nLog : nLog[i].op = op}

RunOver == nPc \in {"returned", "raised"}

\* C2: no handler registered in DomainEventManager is invoked with an event of
\* an aggregate root before uow.commit() of the run has returned successfully.
C2_CommitBeforeDispatch ==
    \A i \in LogIdx("invoke") : \E c \in LogIdx("commit") : c < i

SettledBefore(f) ==
    \A k \in DOMAIN Pos(nBatch) :
        LET hs == Matching(DomainHandlers, Pos(nBatch)[k].kind)
        IN \A x \in DOMAIN hs :
              \E i \in 1..(f - 1) : nLog[i] = Entry("settle", hs[x].name, k, TRUE)

IntegrationBegun == nPc = "integration" \/ LogIdx("integration") # {}

\* C6: the integration hand-off of a run begins only after uow.commit() has
\* completed and after every domain handler of every event of every aggregate
\* root of the run has completed; no domain handler is pending while the
\* integration events are handed over.
C6_DomainBeforeIntegration ==
    /\ IntegrationBegun =>
          /\ LogIdx("commit") # {}
          /\ SettledBefore(Len(nLog) + 1)
          /\ nPending = {}
    /\ \A f \in LogIdx("integration") :
          /\ \E c \in LogIdx("commit") : c < f
          /\ SettledBefore(f)

\* a run over two aggregate roots has handed an event to the transport and returned
C6_Witness ==
    /\ nPc = "returned"
    /\ Len(nBatch) = 2
    /\ LogIdx("integration") # {}
    /\ Cardinality(LogIdx("invoke")) >= 3

\* C7: with two subscribers of one kind, the first of which fails whenever it
\* is invoked, the second one is still invoked for every event of that kind in
\* the batch: a failing handler does not keep the later events of the batch
\* from being dispatched.
C7_HandlerIsolation ==
    (/\ RunOver
     /\ LogIdx("finish") # {}
     /\ \A i \in LogIdx("settle") : nLog[i].h = DomainHandlers[1].name => ~nLog[i].ok)
    => \A k \in DOMAIN Pos(nBatch) :
          Pos(nBatch)[k].kind = DomainHandlers[1].on =>
              \E i \in LogIdx("invoke") : nLog[i].h = DomainHandlers[2].name /\ nLog[i].k = k

CallbackReturned == LogIdx("result") # {}
CallbackRaised == \E i \in LogIdx("raise") : nLog[i].h = "callback"

\* C9 as claimed: a callback that returns normally has finish() run once and
\* its result returned; a callback that raises has finish() never run, fail()
\* run once and its error raised to the caller.
C9_ResultAlwaysReturned ==
    /\ (RunOver /\ CallbackReturned) =>
          /\ Cardinality(LogIdx("finish")) = 1
          /\ nPc = "returned"
          /\ nReturn = nBatch
    /\ (RunOver /\ CallbackRaised) =>
          /\ LogIdx("finish") = {}
          /\ Cardinality(LogIdx("fail")) = 1
          /\ nPc = "raised"
          /\ nRaised = "callback"

\* C9 as amended: a callback that returns normally has finish() run exactly
\* once; run() then returns the callback's result if finish() completes, and
\* if finish() raises, fail() runs exactly once and that error is raised. A
\* callback that raises has finish() never run (no handler invoked, no commit,
\* no hand-off), fail() run exactly once and its error raised unchanged.
C9_RunWrapper ==
    /\ CallbackReturned => Cardinality(LogIdx("finish")) = 1
    /\ nPc = "returned" =>
          /\ CallbackReturned
          /\ nReturn = nBatch
          /\ LogIdx("fail") = {}
          /\ LogIdx("raise") = {}
    /\ nPc = "raised" =>
          /\ Cardinality(LogIdx("fail")) = 1
          /\ Cardinality(LogIdx("raise")) = 1
          /\ \A i \in LogIdx("raise") : nRaised = nLog[i].h
    /\ CallbackRaised =>
          /\ LogIdx("finish") = {}
          /\ LogIdx("invoke") = {}
          /\ LogIdx("commit") = {}
          /\ LogIdx("integration") = {}
          /\ RunOver => nPc = "raised" /\ nRaised = "callback"

\* uow.commit() failed inside finish(): fail() has run and the commit error
\* was raised instead of the callback's result
C9_Witness ==
    /\ nPc = "raised"
    /\ nRaised = "commit"
    /\ CallbackReturned
    /\ LogIdx("fail") # {}

\* the handler registered for '*'
WildcardHandlers == {DomainHandlers[i].name : i \in {j \in DOMAIN DomainHandlers : DomainHandlers[j].on = "*"}}

\* the kinds some handler is registered for by name
SpecificKinds == {DomainHandlers[i].on : i \in DOMAIN DomainHandlers} \ {"*"}

InvocationsOf(h, k) == {i \in LogIdx("invoke") : nLog[i].h = h /\ nLog[i].k = k}

\* C21: for every event DomainEventManager.publish has emitted, of whatever
\* kind, the handler registered for '*' has been invoked exactly once.
C21_WildcardInvokedOnce ==
    \A e \in LogIdx("emit") :
        \A h \in WildcardHandlers : Cardinality(InvocationsOf(h, nLog[e].k)) = 1

\* an event of a kind with a handler of its own and an event of a kind with
\* none have both been emitted
C21_Witness ==
    /\ WildcardHandlers # {}
    /\ \E e \in LogIdx("emit") : nLog[e].h \in SpecificKinds
    /\ \E e \in LogIdx("emit") : nLog[e].h \notin SpecificKinds

\* ================================================== claims on the Order
\* C10: pay() on an order that is not PENDING throws and leaves the status and
\* the event buffer as they were; pay() on a PENDING order succeeds, makes the
\* order PAID and appends exactly one OrderPaid. So of two pay() calls in
\* sequence the first succeeds and the second fails without appending.
C10_PayOnlyWhenPending ==
    oLast.op = "pay" =>
        LET o == oLast.order
        IN IF oLast.status # "PENDING"
              THEN /\ oLast.threw
                   /\ oStatus[o] = oLast.status
                   /\ oEvents[o] = oLast.events
              ELSE /\ ~oLast.threw
                   /\ oStatus[o] = "PAID"
                   /\ oEvents[o] = Append(oLast.events, OrderPaid(o, "PAID"))

\* the second of two pay() calls in sequence has just failed: the buffer still
\* ends with the OrderPaid of the first
C10_Witness ==
    /\ oLast.op = "pay"
    /\ oLast.threw
    /\ oLast.status = "PAID"
    /\ Len(oEvents[oLast.order]) = 2
    /\ oEvents[oLast.order][2].kind = "OrderPaid"

KindAt(o, kind) == {i \in DOMAIN oRecorded[o] : oRecorded[o][i].kind = kind}

\* C11: cancel() on an order whose status is PAID throws and leaves the status
\* PAID and the event buffer as they were; no OrderCancelled is ever recorded
\* for an order after its OrderPaid.
C11_CancelPaidRejected ==
    /\ (oLast.op = "cancel" /\ oLast.status = "PAID") =>
          /\ oLast.threw
          /\ oStatus[oLast.order] = "PAID"
          /\ oEvents[oLast.order] = oLast.events
    /\ \A o \in Orders : \A i \in KindAt(o, "OrderPaid") :
          \A j \in KindAt(o, "OrderCancelled") : j < i

\* cancel() has just been called on a PAID order
C11_Witness ==
    /\ oLast.op = "cancel"
    /\ oLast.status = "PAID"
    /\ oLast.threw
    /\ KindAt(oLast.order, "OrderPaid") # {}

\* C12: the status of an order changes only by creation (to PENDING), from
\* PENDING to PAID and from PENDING to CANCELLED; the status of a PAID or
\* CANCELLED order is never changed by a pay() or cancel() call.
C12_StateMachine ==
    [][\A o \in Orders :
          oStatus'[o] # oStatus[o] =>
             \/ oStatus[o] = "NONE" /\ oStatus'[o] = "PENDING"
             \/ oStatus[o] = "PENDING" /\ oStatus'[o] \in {"PAID", "CANCELLED"}]_vars

\* pay() has just been called on a CANCELLED order, which is still CANCELLED
C12_Witness ==
    /\ oLast.op = "pay"
    /\ oLast.status = "CANCELLED"
    /\ oStatus[oLast.order] = "CANCELLED"

\* a successful pay() appended exactly one OrderPaid carrying PAID, a
\* successful cancel() exactly one OrderCancelled carrying CANCELLED
OneEventPerTransition ==
    LET o == oLast.order
    IN /\ (oLast.op = "pay" /\ ~oLast.threw) =>
             /\ oStatus[o] = "PAID"
             /\ oEvents[o] = Append(oLast.events, OrderPaid(o, "PAID"))
       /\ (oLast.op = "cancel" /\ ~oLast.threw) =>
             /\ oStatus[o] = "CANCELLED"
             /\ oEvents[o] = Append(oLast.events, OrderCancelled(o, "CANCELLED"))

\* C13: every successful pay() / cancel() appends exactly one event
\* carrying the new status, and an order records at most one transition event
\* (OrderPaid or OrderCancelled) over all its calls.
C13_OneTransitionEvent ==
    /\ OneEventPerTransition
    /\ \A o \in Orders :
          Cardinality(KindAt(o, "OrderPaid") \cup KindAt(o, "OrderCancelled")) <= 1

\* the buffer of order o holds an event of the kind
Buffered(o, kind) == \E i \in DOMAIN oEvents[o] : oEvents[o][i].kind = kind

\* order o exists and its buffer has never been cleared
Uncleared(o) == oStatus[o] # "NONE" /\ oEvents[o] = oRecorded[o]

\* C26: for an order made by Order.create whose buffer has not been cleared,
\* the buffer starts with OrderCreated, the status is PAID exactly when the
\* buffer holds an OrderPaid, CANCELLED exactly when it holds an
\* OrderCancelled, and the buffer never holds both.
C26_StatusMatchesEvents ==
    \A o \in Orders :
        Uncleared(o) =>
            /\ oEvents[o] # <<>> /\ oEvents[o][1].kind = "OrderCreated"
            /\ oStatus[o] = "PAID" <=> Buffered(o, "OrderPaid")
            /\ oStatus[o] = "CANCELLED" <=> Buffered(o, "OrderCancelled")
            /\ ~(Buffered(o, "OrderPaid") /\ Buffered(o, "OrderCancelled"))

\* a paid order and a cancelled order, neither buffer cleared, after a call
\* was rejected
C26_Witness ==
    /\ oLast.threw
    /\ \E o, p \in Orders :
          /\ Uncleared(o) /\ oStatus[o] = "PAID"
          /\ Uncleared(p) /\ oStatus[p] = "CANCELLED"

\* ================================================ claims on the factories
\* C14: Partner.create(name) returns a partner whose buffer holds exactly one
\* event, a PartnerCreated carrying the partner's id and the given name;
\* Order.create(...) returns a PENDING order whose buffer holds exactly one
\* event, an OrderCreated carrying the order's id, the given customer, spot
\* and amount, and status PENDING.
C14_FactoryRecordsCreation ==
    /\ fPartner.called =>
          LET p == fPartner.result
          IN /\ p.name = fPartner.name
             /\ Len(p.domainEvents) = 1
             /\ p.domainEvents[1].kind = "PartnerCreated"
             /\ p.domainEvents[1].partnerId = p.id
             /\ p.domainEvents[1].name = fPartner.name
    /\ fOrder.called =>
          LET o == fOrder.result
          IN /\ o.status = "PENDING"
             /\ Len(o.domainEvents) = 1
             /\ o.domainEvents[1].kind = "OrderCreated"
             /\ o.domainEvents[1].orderId = o.id
             /\ o.domainEvents[1].customerId = fOrder.customerId
             /\ o.domainEvents[1].eventSpotId = fOrder.eventSpotId
             /\ o.domainEvents[1].amount = fOrder.amount
             /\ o.domainEvents[1].status = "PENDING"
             /\ o.customerId = fOrder.customerId
             /\ o.eventSpotId = fOrder.eventSpotId
             /\ o.amount = fOrder.amount

\* both factories were called, Partner.create with "Globex"
C14_Witness ==
    /\ fPartner.called
    /\ fPartner.name = "Globex"
    /\ fPartner.result.id = "u2"
    /\ fOrder.called
    /\ fOrder.amount = 250

\* ============================================ claims on the unit of work
Commits == {i \in DOMAIN uLog : uLog[i].op = "commit"}
CommitsDone == {i \in Commits : uLog[i].ok}

StepsOf(op) == {i \in DOMAIN uLog : uLog[i].op = op}

NotFound(message) == uLog = <<UEntry("throw", message, FALSE)>>

\* C27: EventService.create for a partner that does not exist throws
\* 'Partner not found', EventService.update for an event that does not exist
\* throws 'Event not found', and neither has called eventRepo.add or
\* uow.commit; a create or update that returned has called eventRepo.add
\* exactly once, and then uow.commit exactly once.
C27_EventServiceErrorPaths ==
    /\ (uCase.service = "EventService.create" /\ uCase.customer # "p1") =>
          uPc = "threw" /\ NotFound("Partner not found")
    /\ (uCase.service = "EventService.update" /\ EventRow(uCase.id) \notin Visible) =>
          uPc = "threw" /\ NotFound("Event not found")
    /\ (uCase.service \in {"EventService.create", "EventService.update"}
          /\ uPc = "returned") =>
          /\ Cardinality(StepsOf("add")) = 1
          /\ Cardinality(StepsOf("commit")) = 1
          /\ \A a \in StepsOf("add") : \A c \in StepsOf("commit") : a < c

\* an update of a missing event has been rejected after a create had
\* returned
C27_Witness ==
    /\ uCase.service = "EventService.update"
    /\ uPc = "threw" /\ NotFound("Event not found")
    /\ uDb # {}

\* ================================== claims on the run calls in flight
Published(r) == SelectSeq(cLog, LAMBDA e : e.op = "publish" /\ e.run = r)
Dispatches == SelectSeq(cLog, LAMBDA e : e.op = "publish")

\* C17: with two run calls in flight, finish() of each publishes only the
\* events of the roots of its own callback and commits only those, and the
\* dispatch sequences of the two calls do not interleave: once the other call
\* has dispatched an event, the first dispatches no further one.
C17_IndependentRuns ==
    /\ \A i \in DOMAIN cLog :
          cLog[i].op \in {"publish", "flush"} => cLog[i].owner = cLog[i].run
    /\ \A i, j, k \in DOMAIN Dispatches :
          (i < j /\ j < k) =>
             ~(Dispatches[i].run = Dispatches[k].run /\ Dispatches[j].run # Dispatches[i].run)

\* ============================================ claims on the event buffer
IsSuffix(x, y) == Len(x) <= Len(y) /\ SubSeq(y, Len(y) - Len(x) + 1, Len(y)) = x

\* C18: getDomainEvents() gives the buffered events in insertion order (the
\* last events recorded, in the order they were recorded) and leaves the
\* buffer as it was; every attempt to add to, remove from, clear or reorder
\* the list it gave fails and leaves the buffer as it was.
C18_GetDomainEventsReadOnly ==
    /\ bLast.op = "getDomainEvents" =>
          /\ bLast.result = bLast.before
          /\ domainEvents[bLast.obj] = bLast.before
          /\ IsSuffix(bLast.result, recorded[bLast.obj])
    /\ bLast.op \in ListMutations =>
          /\ bLast.threw
          /\ domainEvents[bLast.obj] = bLast.before

\* a caller has just tried to reverse a list of two buffered events
C18_Witness ==
    /\ bLast.op = "reverse"
    /\ Len(bLast.before) = 2
    /\ bLast.before[1] # bLast.before[2]

\* C20: after clearEvents() the buffer is empty and hasEvents() is false;
\* clearEvents() on an empty buffer changes nothing; it never fails.
C20_ClearEventsIdempotent ==
    bLast.op = "clearEvents" =>
        /\ ~bLast.threw
        /\ domainEvents[bLast.obj] = <<>>
        /\ ~hasEvents(bLast.obj)
        /\ bLast.before = <<>> => domainEvents[bLast.obj] = bLast.before

\* clearEvents() has just been called on a buffer emptied before
C20_Witness ==
    /\ bLast.op = "clearEvents"
    /\ bLast.before = <<>>
    /\ recorded[bLast.obj] # <<>>

FoundReserved == \E c \in Calls : kErr[c] = "Spot already reserved"

RowsOf(type, spot) == {r \in kDb : r.type = type /\ r.spot = spot}

\* C24: at most one SpotReservation and at most one PAID order exist for a
\* spot; a call that found the spot reserved threw 'Spot already reserved'
\* having flushed and added nothing.
C24_NoDoubleBooking ==
    /\ \A spot \in BookSpots :
          /\ Cardinality(RowsOf("SpotReservation", spot)) <= 1
          /\ Cardinality({r \in RowsOf("Order", spot) : r.status = "PAID"}) <= 1
    /\ \A c \in Calls :
          kErr[c] = "Spot already reserved" =>
              /\ kTx[c] = {} /\ kPersist[c] = {}
              /\ \A r \in kDb : r.call # c

\* ============================================== claims on value objects
\* C28: equals on two value objects of the same class holding deep-equal
\* values is true; it is false when the classes differ or the values differ.
C28_EqualsByAttributes ==
    (vResult # "none" /\ vObj \in ValueObjects) =>
        (vResult = "true") = (vThis.class = vObj.class /\ isEqual(vThis.value, vObj.value))

====
